---- MODULE Spec2Model ----
(***************************************************************************)
(* Model of src/app.py: the MEDLINE author/email extractor.                *)
(*                                                                         *)
(* A text is a sequence of characters (one-character strings).  The parser *)
(* parse_medline_text is modelled statement by statement as a state        *)
(* machine over the indices i, j, k of its three nested scans; the string  *)
(* primitives it calls (str.strip, str.startswith, str.split, str.join,    *)
(* str.splitlines, re.split, re.search) are operators on character         *)
(* sequences that compute what the Python primitives compute.              *)
(***************************************************************************)
EXTENDS Integers, Sequences, FiniteSets, TLC

VARIABLES
    uploaded_files,  \* app.py:70  the uploaded texts, in upload order
    fi,              \* app.py:74  0-based position of the `for uploaded` loop
    chunks,          \* app.py:17
    ci,              \* app.py:19  0-based position of the `for chunk` loop
    lines,           \* app.py:20
    pmid,            \* app.py:21
    title,           \* app.py:22
    i,               \* app.py:32
    j,               \* app.py:37
    k,               \* app.py:42
    author,          \* app.py:35
    email,           \* app.py:36
    aff_lines,       \* app.py:41
    aff_text,        \* app.py:46
    records,         \* app.py:15
    all_records,     \* app.py:73
    df,              \* app.py:80
    outcome,         \* app.py:81 / app.py:120: what the page shows
    rec_origin,      \* history: <<fi, ci, i>> of each element of records
    all_origin,      \* history: <<fi, ci, i>> of each element of all_records
    pc

vars == << uploaded_files, fi, chunks, ci, lines, pmid, title, i, j, k, author,
           email, aff_lines, aff_text, records, all_records, df, outcome,
           rec_origin, all_origin, pc >>

-----------------------------------------------------------------------------
(* Characters *)

Upper == {"A","B","C","D","E","F","G","H","I","J","K","L","M",
          "N","O","P","Q","R","S","T","U","V","W","X","Y","Z"}
Lower == {"a","b","c","d","e","f","g","h","i","j","k","l","m",
          "n","o","p","q","r","s","t","u","v","w","x","y","z"}
Letter == Upper \cup Lower
Digit == {"0","1","2","3","4","5","6","7","8","9"}

\* what str.strip() removes and what \s matches, among the characters used here
Whitespace == {" ", "\t", "\n", "\r"}
\* where str.splitlines() breaks, among the characters used here
LineBreak == {"\n", "\r"}

\* the three character classes of EMAIL_RX
LocalChar == Letter \cup Digit \cup {".", "_", "%", "+", "-"}
DomainChar == Letter \cup Digit \cup {".", "-"}
TldChar == Letter

\* the characters of the texts explored
Char == Letter \cup Digit \cup Whitespace \cup {".", "_", "%", "+", "-", "@", ","}
Str == Seq(Char)

\* Python's None, distinct from every character sequence
None == << "None" >>

-----------------------------------------------------------------------------
(* String primitives *)

\* s[a:] with a 0-based
From(s, a) == SubSeq(s, a + 1, Len(s))

\* s.startswith(prefix)
StartsWith(s, prefix) ==
    /\ Len(s) >= Len(prefix)
    /\ SubSeq(s, 1, Len(prefix)) = prefix

\* The recursive primitives are functions: their arguments are values.

\* number of leading characters of s that are in class C
Run[s \in Str, C \in SUBSET Char] ==
    IF s # << >> /\ Head(s) \in C THEN 1 + Run[Tail(s), C] ELSE 0

\* number of trailing characters of s that are in class C
RunBack[s \in Str, C \in SUBSET Char] ==
    IF s # << >> /\ s[Len(s)] \in C
    THEN 1 + RunBack[SubSeq(s, 1, Len(s) - 1), C] ELSE 0

\* s.strip()
Strip(s) ==
    LET a == Run[s, Whitespace]
    IN  IF a = Len(s) THEN << >>
        ELSE SubSeq(s, a + 1, Len(s) - RunBack[s, Whitespace])

\* 1-based position of the first character of s that is in class C, 0 if none
Find(s, C) ==
    IF Run[s, Char \ C] = Len(s) THEN 0 ELSE Run[s, Char \ C] + 1

\* s.split('-', 1): one part when s holds no '-', else the text before the
\* first '-' and the text after it
SplitDash(s) ==
    LET p == Find(s, {"-"})
    IN  IF p = 0 THEN << s >>
        ELSE << SubSeq(s, 1, p - 1), From(s, p) >>

\* s.splitlines(): breaks at "\n", "\r" and "\r\n", no empty last line
SplitLines[s \in Str] ==
    IF s = << >> THEN << >>
    ELSE LET p == Find(s, LineBreak)
         IN  IF p = 0 THEN << s >>
             ELSE LET w == IF s[p] = "\r" /\ p < Len(s) /\ s[p + 1] = "\n"
                           THEN 2 ELSE 1
                  IN  << SubSeq(s, 1, p - 1) >> \o SplitLines[From(s, p + w - 1)]

\* ' '.join(parts)
JoinSpace[parts \in Seq(Str)] ==
    IF parts = << >> THEN << >>
    ELSE IF Len(parts) = 1 THEN parts[1]
    ELSE parts[1] \o << " " >> \o JoinSpace[Tail(parts)]

-----------------------------------------------------------------------------
(* The tags *)

PMID_TAG == << "P", "M", "I", "D", "-" >>
TI_TAG == << "T", "I", " ", " ", "-" >>
FAU_TAG == << "F", "A", "U", " ", "-" >>
AD_TAG == << "A", "D", " ", " ", "-" >>
\* the prefix a continuation line is recognised by
CONT_PREFIX == << " " >>

-----------------------------------------------------------------------------
(* re.split(r'\n(?=PMID-\s)', text) *)

\* faulty variant of BoundaryAt: the look-ahead is (?=PMID-), any character
\* may follow the tag
BoundaryAtAnyTag(s, p) ==
    /\ s[p] = "\n"
    /\ StartsWith(From(s, p), PMID_TAG)

\* the pattern matches at 1-based position p of s: a "\n" that is followed by
\* PMID- and one whitespace character (the look-ahead consumes nothing)
BoundaryAt(s, p) ==
    /\ s[p] = "\n"
    /\ StartsWith(From(s, p), PMID_TAG)
    /\ Len(s) >= p + Len(PMID_TAG) + 1
    /\ s[p + Len(PMID_TAG) + 1] \in Whitespace

\* 1-based position of the leftmost match, 0 if none
FirstBoundary(s) ==
    LET ps == { p \in 1..Len(s) : BoundaryAt(s, p) }
    IN  IF ps = {} THEN 0 ELSE CHOOSE p \in ps : \A q \in ps : p <= q

ReSplit[s \in Str] ==
    LET p == FirstBoundary(s)
    IN  IF p = 0 THEN << s >>
        ELSE << SubSeq(s, 1, p - 1) >> \o ReSplit[From(s, p)]

-----------------------------------------------------------------------------
(* EMAIL_RX.search(text) *)

\* The ways EMAIL_RX matches s from its first character: <<n1, n2, n3>> are
\* the lengths taken by the local part, by the domain before its last '.',
\* and by the final letters.
EmailMatches(s) ==
    UNION { UNION { { << n1, n2, n3 >> :
                        n3 \in 2..Run[From(s, n1 + n2 + 2), TldChar] } :
                    n2 \in { n \in 1..Run[From(s, n1 + 1), DomainChar] :
                               /\ n1 + n + 2 <= Len(s)
                               /\ s[n1 + n + 2] = "." } } :
            n1 \in { n \in 1..Run[s, LocalChar] :
                       /\ n + 1 <= Len(s)
                       /\ s[n + 1] = "@" } }

\* The match the backtracking matcher returns: every quantifier is greedy, so
\* the first success is the greatest <<n1, n2, n3>> in lexicographic order.
GreedyMatch(ms) ==
    CHOOSE m \in ms : \A o \in ms :
        \/ m[1] > o[1]
        \/ m[1] = o[1] /\ m[2] > o[2]
        \/ m[1] = o[1] /\ m[2] = o[2] /\ m[3] >= o[3]

\* the text of the match at the first character of s, << >> if none
EmailAt(s) ==
    LET ms == EmailMatches(s)
    IN  IF ms = {} THEN << >>
        ELSE LET m == GreedyMatch(ms)
             IN  SubSeq(s, 1, m[1] + m[2] + m[3] + 2)

\* m.group(0) of the leftmost match, << >> when search returns None
EmailSearch[s \in Str] ==
    IF s = << >> THEN << >>
    ELSE IF EmailAt(s) # << >> THEN EmailAt(s)
    ELSE EmailSearch[Tail(s)]

-----------------------------------------------------------------------------
(* pandas: DataFrame(rows).drop_duplicates(subset=['PMID','Author','Email']) *)

Row(p, t, a, e) == [PMID |-> p, Title |-> t, Author |-> a, Email |-> e]

\* the columns named by subset=
Key(r) == << r.PMID, r.Author, r.Email >>

\* faulty variant of DropDuplicates: subset= is left out, whole rows compared
DropDuplicatesAllColumns(rows) ==
    LET keep == { n \in 1..Len(rows) :
                    \A m \in 1..(n - 1) : rows[m] # rows[n] }
        RECURSIVE Pick(_)
        Pick(n) == IF n > Len(rows) THEN << >>
                   ELSE IF n \in keep THEN << rows[n] >> \o Pick(n + 1)
                   ELSE Pick(n + 1)
    IN  Pick(1)

\* keep='first' (the default): a row is dropped when an earlier row has its key
DropDuplicates(rows) ==
    LET keep == { n \in 1..Len(rows) :
                    \A m \in 1..(n - 1) : Key(rows[m]) # Key(rows[n]) }
        RECURSIVE Pick(_)
        Pick(n) == IF n > Len(rows) THEN << >>
                   ELSE IF n \in keep THEN << rows[n] >> \o Pick(n + 1)
                   ELSE Pick(n + 1)
    IN  Pick(1)

-----------------------------------------------------------------------------
(* parse_medline_text, header pass (app.py:25-29) *)

\* line.split('-', 1)[1].strip(); the subscript raises IndexError when the
\* split gave one part
HasValue(line) == Len(SplitDash(line)) >= 2
Value(line) == Strip(SplitDash(line)[2])

\* the header loop raises on some line
HeaderRaises(ls) ==
    \E n \in 1..Len(ls) :
        /\ StartsWith(ls[n], PMID_TAG) \/ StartsWith(ls[n], TI_TAG)
        /\ ~HasValue(ls[n])

\* faulty variant of HeaderPmid: pmid is assigned only while it is None
RECURSIVE HeaderPmidFirst(_, _)
HeaderPmidFirst(ls, p) ==
    IF ls = << >> THEN p
    ELSE IF StartsWith(Head(ls), PMID_TAG) /\ p = None
         THEN HeaderPmidFirst(Tail(ls), Value(Head(ls)))
         ELSE HeaderPmidFirst(Tail(ls), p)

\* the value of pmid after the loop has run over ls, starting from p
RECURSIVE HeaderPmid(_, _)
HeaderPmid(ls, p) ==
    IF ls = << >> THEN p
    ELSE IF StartsWith(Head(ls), PMID_TAG)
         THEN HeaderPmid(Tail(ls), Value(Head(ls)))
         ELSE HeaderPmid(Tail(ls), p)

\* the value of title after the loop has run over ls, starting from t; the
\* elif makes a line that starts with PMID- never a title line
RECURSIVE HeaderTitle(_, _)
HeaderTitle(ls, t) ==
    IF ls = << >> THEN t
    ELSE IF ~StartsWith(Head(ls), PMID_TAG) /\ StartsWith(Head(ls), TI_TAG)
         THEN HeaderTitle(Tail(ls), Value(Head(ls)))
         ELSE HeaderTitle(Tail(ls), t)

-----------------------------------------------------------------------------
(* The page script (app.py:72-120) and parse_medline_text (app.py:10-64) *)

\* app.py:72  `if uploaded_files:` with a non-empty list
Start ==
    /\ pc = "start"
    /\ uploaded_files # << >>
    /\ all_records' = << >>
    /\ all_origin' = << >>
    /\ fi' = 0
    /\ pc' = "file"
    /\ UNCHANGED << uploaded_files, chunks, ci, lines, pmid, title, i, j, k,
                    author, email, aff_lines, aff_text, records, df, outcome,
                    rec_origin >>

\* app.py:72  `if uploaded_files:` with an empty list: nothing is shown
StartEmpty ==
    /\ pc = "start"
    /\ uploaded_files = << >>
    /\ pc' = "done"
    /\ UNCHANGED << uploaded_files, fi, chunks, ci, lines, pmid, title, i, j,
                    k, author, email, aff_lines, aff_text, records,
                    all_records, df, outcome, rec_origin, all_origin >>

\* app.py:74-76 and 15-17: read the next file, enter parse_medline_text, split
ReadFile ==
    /\ pc = "file"
    /\ fi < Len(uploaded_files)
    /\ records' = << >>
    /\ rec_origin' = << >>
    /\ chunks' = ReSplit[Strip(uploaded_files[fi + 1])]
    /\ ci' = 0
    /\ pc' = "chunk"
    /\ UNCHANGED << uploaded_files, fi, lines, pmid, title, i, j, k, author,
                    email, aff_lines, aff_text, all_records, df, outcome,
                    all_origin >>

\* app.py:19-32: next chunk, its lines, the header pass, i = 0
NextChunk ==
    /\ pc = "chunk"
    /\ ci < Len(chunks)
    /\ lines' = SplitLines[chunks[ci + 1]]
    /\ IF HeaderRaises(lines')
       THEN /\ pc' = "raised"
            /\ UNCHANGED << pmid, title, i >>
       ELSE /\ pmid' = HeaderPmid(lines', None)
            /\ title' = HeaderTitle(lines', None)
            /\ i' = 0
            /\ pc' = "scan_i"
    /\ UNCHANGED << uploaded_files, fi, chunks, ci, j, k, author, email,
                    aff_lines, aff_text, records, all_records, df, outcome,
                    rec_origin, all_origin >>

\* faulty variant of ReturnRecords: the new rows are put in front
ReturnRecordsInFront ==
    /\ pc = "chunk"
    /\ ci >= Len(chunks)
    /\ all_records' = records \o all_records
    /\ all_origin' = rec_origin \o all_origin
    /\ fi' = fi + 1
    /\ pc' = "file"
    /\ UNCHANGED << uploaded_files, chunks, ci, lines, pmid, title, i, j, k,
                    author, email, aff_lines, aff_text, records, df, outcome,
                    rec_origin >>

\* app.py:64 and 76: no chunk is left: return records, all_records.extend(...)
ReturnRecords ==
    /\ pc = "chunk"
    /\ ci >= Len(chunks)
    /\ all_records' = all_records \o records
    /\ all_origin' = all_origin \o rec_origin
    /\ fi' = fi + 1
    /\ pc' = "file"
    /\ UNCHANGED << uploaded_files, chunks, ci, lines, pmid, title, i, j, k,
                    author, email, aff_lines, aff_text, records, df, outcome,
                    rec_origin >>

\* app.py:33-37 and 62: one turn of `while i < len(lines)`
ScanI ==
    /\ pc = "scan_i"
    /\ i < Len(lines)
    /\ IF StartsWith(lines[i + 1], FAU_TAG)
       THEN IF HasValue(lines[i + 1])
            THEN /\ author' = Value(lines[i + 1])
                 /\ email' = << >>
                 /\ j' = i + 1
                 /\ pc' = "scan_j"
                 /\ i' = i
            ELSE /\ pc' = "raised"
                 /\ UNCHANGED << author, email, j, i >>
       ELSE /\ i' = i + 1
            /\ UNCHANGED << author, email, j, pc >>
    /\ UNCHANGED << uploaded_files, fi, chunks, ci, lines, pmid, title, k,
                    aff_lines, aff_text, records, all_records, df, outcome,
                    rec_origin, all_origin >>

\* app.py:33: `while i < len(lines)` ends, the `for chunk` loop goes on
ChunkDone ==
    /\ pc = "scan_i"
    /\ i >= Len(lines)
    /\ ci' = ci + 1
    /\ pc' = "chunk"
    /\ UNCHANGED << uploaded_files, fi, chunks, lines, pmid, title, i, j, k,
                    author, email, aff_lines, aff_text, records, all_records,
                    df, outcome, rec_origin, all_origin >>

\* faulty variant of ScanJ: `j += 1` is missing
ScanJStuck ==
    /\ pc = "scan_j"
    /\ IF j < Len(lines)
       THEN IF StartsWith(lines[j + 1], AD_TAG)
            THEN IF HasValue(lines[j + 1])
                 THEN /\ aff_lines' = << Value(lines[j + 1]) >>
                      /\ k' = j + 1
                      /\ pc' = "scan_k"
                      /\ j' = j
                 ELSE /\ pc' = "raised"
                      /\ UNCHANGED << aff_lines, k, j >>
            ELSE IF StartsWith(lines[j + 1], FAU_TAG)
            THEN /\ pc' = "emit"
                 /\ UNCHANGED << aff_lines, k, j >>
            ELSE UNCHANGED << aff_lines, k, pc, j >>
       ELSE /\ pc' = "emit"
            /\ UNCHANGED << aff_lines, k, j >>
    /\ UNCHANGED << uploaded_files, fi, chunks, ci, lines, pmid, title, i,
                    author, email, aff_text, records, all_records, df, outcome,
                    rec_origin, all_origin >>

\* faulty variant of ScanJ: the `elif ... FAU` break is missing
ScanJNoAbandon ==
    /\ pc = "scan_j"
    /\ IF j < Len(lines)
       THEN IF StartsWith(lines[j + 1], AD_TAG)
            THEN IF HasValue(lines[j + 1])
                 THEN /\ aff_lines' = << Value(lines[j + 1]) >>
                      /\ k' = j + 1
                      /\ pc' = "scan_k"
                      /\ j' = j
                 ELSE /\ pc' = "raised"
                      /\ UNCHANGED << aff_lines, k, j >>
            ELSE /\ j' = j + 1
                 /\ UNCHANGED << aff_lines, k, pc >>
       ELSE /\ pc' = "emit"
            /\ UNCHANGED << aff_lines, k, j >>
    /\ UNCHANGED << uploaded_files, fi, chunks, ci, lines, pmid, title, i,
                    author, email, aff_text, records, all_records, df, outcome,
                    rec_origin, all_origin >>

\* app.py:39-42 and 51-53: one turn of `while j < len(lines)`, or its end
ScanJ ==
    /\ pc = "scan_j"
    /\ IF j < Len(lines)
       THEN IF StartsWith(lines[j + 1], AD_TAG)
            THEN IF HasValue(lines[j + 1])
                 THEN /\ aff_lines' = << Value(lines[j + 1]) >>
                      /\ k' = j + 1
                      /\ pc' = "scan_k"
                      /\ j' = j
                 ELSE /\ pc' = "raised"
                      /\ UNCHANGED << aff_lines, k, j >>
            ELSE IF StartsWith(lines[j + 1], FAU_TAG)
            THEN /\ pc' = "emit"
                 /\ UNCHANGED << aff_lines, k, j >>
            ELSE /\ j' = j + 1
                 /\ UNCHANGED << aff_lines, k, pc >>
       ELSE /\ pc' = "emit"
            /\ UNCHANGED << aff_lines, k, j >>
    /\ UNCHANGED << uploaded_files, fi, chunks, ci, lines, pmid, title, i,
                    author, email, aff_text, records, all_records, df, outcome,
                    rec_origin, all_origin >>

\* app.py:43-45: one turn of the continuation loop
ScanK ==
    /\ pc = "scan_k"
    /\ k < Len(lines)
    /\ StartsWith(lines[k + 1], CONT_PREFIX)
    /\ aff_lines' = Append(aff_lines, Strip(lines[k + 1]))
    /\ k' = k + 1
    /\ UNCHANGED << uploaded_files, fi, chunks, ci, lines, pmid, title, i, j,
                    author, email, aff_text, records, all_records, df, outcome,
                    rec_origin, all_origin, pc >>

\* faulty variant of Search: the break is under `if m:`, so the look-ahead
\* goes on after a block without an email
SearchGoesOn ==
    /\ pc = "scan_k"
    /\ ~(k < Len(lines) /\ StartsWith(lines[k + 1], CONT_PREFIX))
    /\ aff_text' = JoinSpace[aff_lines]
    /\ IF EmailSearch[JoinSpace[aff_lines]] # << >>
       THEN /\ email' = EmailSearch[JoinSpace[aff_lines]]
            /\ pc' = "emit"
            /\ j' = j
       ELSE /\ email' = email
            /\ pc' = "scan_j"
            /\ j' = j + 1
    /\ UNCHANGED << uploaded_files, fi, chunks, ci, lines, pmid, title, i,
                    k, author, aff_lines, records, all_records, df, outcome,
                    rec_origin, all_origin >>

\* app.py:46-50: the continuation loop ends: join, search, break
Search ==
    /\ pc = "scan_k"
    /\ ~(k < Len(lines) /\ StartsWith(lines[k + 1], CONT_PREFIX))
    /\ aff_text' = JoinSpace[aff_lines]
    /\ email' = IF EmailSearch[JoinSpace[aff_lines]] # << >>
                THEN EmailSearch[JoinSpace[aff_lines]]
                ELSE email
    /\ pc' = "emit"
    /\ UNCHANGED << uploaded_files, fi, chunks, ci, lines, pmid, title, i, j,
                    k, author, aff_lines, records, all_records, df, outcome,
                    rec_origin, all_origin >>

\* faulty variant of Emit: `if email:` is missing
EmitAlways ==
    /\ pc = "emit"
    /\ records' = Append(records, Row(pmid, title, author, email))
    /\ rec_origin' = Append(rec_origin, << fi, ci, i >>)
    /\ i' = i + 1
    /\ pc' = "scan_i"
    /\ UNCHANGED << uploaded_files, fi, chunks, ci, lines, pmid, title, j, k,
                    author, email, aff_lines, aff_text, all_records, df,
                    outcome, all_origin >>

\* app.py:55-62: append the row when an email was found, i += 1
Emit ==
    /\ pc = "emit"
    /\ IF email # << >>
       THEN /\ records' = Append(records, Row(pmid, title, author, email))
            /\ rec_origin' = Append(rec_origin, << fi, ci, i >>)
       ELSE UNCHANGED << records, rec_origin >>
    /\ i' = i + 1
    /\ pc' = "scan_i"
    /\ UNCHANGED << uploaded_files, fi, chunks, ci, lines, pmid, title, j, k,
                    author, email, aff_lines, aff_text, all_records, df,
                    outcome, all_origin >>

\* app.py:78-82: every file is read and rows exist: the table
ShowTable ==
    /\ pc = "file"
    /\ fi >= Len(uploaded_files)
    /\ all_records # << >>
    /\ df' = DropDuplicates(all_records)
    /\ outcome' = "table"
    /\ pc' = "done"
    /\ UNCHANGED << uploaded_files, fi, chunks, ci, lines, pmid, title, i, j,
                    k, author, email, aff_lines, aff_text, records,
                    all_records, rec_origin, all_origin >>

\* app.py:119-120: every file is read and no row exists: the warning
ShowWarning ==
    /\ pc = "file"
    /\ fi >= Len(uploaded_files)
    /\ all_records = << >>
    /\ outcome' = "warning"
    /\ pc' = "done"
    /\ UNCHANGED << uploaded_files, fi, chunks, ci, lines, pmid, title, i, j,
                    k, author, email, aff_lines, aff_text, records,
                    all_records, df, rec_origin, all_origin >>

\* one statement of the script
Next ==
    \/ Start
    \/ StartEmpty
    \/ ReadFile
    \/ NextChunk
    \/ ReturnRecords
    \/ ScanI
    \/ ChunkDone
    \/ ScanJ
    \/ ScanK
    \/ Search
    \/ Emit
    \/ ShowTable
    \/ ShowWarning

-----------------------------------------------------------------------------
(* The uploads explored *)

\* the pieces a text may hold in total, and the files an upload may hold
MaxPieces == 4
MaxFiles == 2

NL == << "\n" >>
MAIL_AB == << "a", "@", "b", ".", "c", "o" >>
MAIL_CD == << "c", "@", "d", ".", "e", "u" >>

\* well-formed lines
PMID_1 == PMID_TAG \o << " ", "1" >> \o NL
TI_T == TI_TAG \o << " ", "T" >> \o NL
TI_U == TI_TAG \o << " ", "U" >> \o NL
FAU_A == FAU_TAG \o << " ", "A" >> \o NL
AD_MAIL == AD_TAG \o << " " >> \o MAIL_AB \o NL
AD_PLAIN == AD_TAG \o << " ", "x", "," >> \o NL
CONT_MAIL == << " ", " " >> \o MAIL_CD \o NL
OTHER_LINE == << "L", "A", " ", " ", "-", " ", "e" >> \o NL
\* an author with its affiliation block
AUTHOR_A == FAU_A \o AD_MAIL
AUTHOR_B == FAU_TAG \o << " ", "B" >> \o NL \o AD_PLAIN
            \o << " ", " " >> \o MAIL_AB \o NL
AUTHOR_C == FAU_TAG \o << " ", "C" >> \o NL \o AD_PLAIN \o CONT_MAIL

\* malformed lines
PMID_NOSPACE == PMID_TAG \o << "2" >> \o NL
PMID_CR == PMID_TAG \o << " ", "3", "\r" >>
MIDLINE == << "x", " " >>
PMID_EMPTY == PMID_TAG \o NL
TI_EMPTY == TI_TAG \o NL
FAU_EMPTY == FAU_TAG \o << " " >> \o NL
AD_EMPTY == AD_TAG \o NL
TAB_MAIL == << "\t" >> \o MAIL_CD \o NL
JUNK == << "z", "-", "z" >> \o NL

PipePieces == { PMID_1, TI_T, AUTHOR_A, AUTHOR_B }
SplitPieces == { PMID_1, PMID_NOSPACE, PMID_CR, MIDLINE, TI_T, TI_U, AUTHOR_C }
ScanPieces == { FAU_A, FAU_EMPTY, AD_MAIL, AD_PLAIN, CONT_MAIL, TAB_MAIL, OTHER_LINE }
TotalPieces == { JUNK, PMID_EMPTY, TI_EMPTY, FAU_EMPTY, AD_EMPTY, AD_MAIL,
                 CONT_MAIL }

Concat[ss \in Seq(Str)] == IF ss = << >> THEN << >> ELSE Head(ss) \o Concat[Tail(ss)]

\* the uploads of nf files cut out of at most MaxPieces pieces of V
Uploads(V, nf) ==
    { [ n \in 1..nf |->
          Concat[SubSeq(ps, (IF n = 1 THEN 0 ELSE cut[n - 1]) + 1, cut[n])] ] :
        << ps, cut >> \in
          { pc_ \in (UNION { [1..m -> V] : m \in 0..MaxPieces })
                      \X [1..nf -> 0..MaxPieces] :
              /\ \A n \in 1..nf : pc_[2][n] <= Len(pc_[1])
              /\ \A n \in 2..nf : pc_[2][n - 1] <= pc_[2][n]
              /\ nf = 0 \/ pc_[2][nf] = Len(pc_[1])
              /\ nf = 0 => pc_[1] = << >> } }

\* app.py:70: the page as first served: no file is chosen, the script runs
Init ==
    /\ uploaded_files = << >>
    /\ fi = 0
    /\ chunks = << >>
    /\ ci = 0
    /\ lines = << >>
    /\ pmid = None
    /\ title = None
    /\ i = 0
    /\ j = 0
    /\ k = 0
    /\ author = << >>
    /\ email = << >>
    /\ aff_lines = << >>
    /\ aff_text = << >>
    /\ records = << >>
    /\ all_records = << >>
    /\ df = << >>
    /\ outcome = "none"
    /\ rec_origin = << >>
    /\ all_origin = << >>
    /\ pc = "start"

\* app.py:70: on the page as first served the user chooses files among U; the
\* script is run again from its first line
Upload(U) ==
    /\ pc = "done"
    /\ uploaded_files = << >>
    /\ uploaded_files' \in U
    /\ fi' = 0
    /\ chunks' = << >>
    /\ ci' = 0
    /\ lines' = << >>
    /\ pmid' = None
    /\ title' = None
    /\ i' = 0
    /\ j' = 0
    /\ k' = 0
    /\ author' = << >>
    /\ email' = << >>
    /\ aff_lines' = << >>
    /\ aff_text' = << >>
    /\ records' = << >>
    /\ all_records' = << >>
    /\ df' = << >>
    /\ outcome' = "none"
    /\ rec_origin' = << >>
    /\ all_origin' = << >>
    /\ pc' = "start"

\* several files: the assembly of the table
UploadFiles == Upload(UNION { Uploads(PipePieces, nf) : nf \in 0..MaxFiles })
\* one text: the splitter and the header pass
UploadSplit == Upload(Uploads(SplitPieces, 1))
\* one text: the author/affiliation pass
UploadScan == Upload(Uploads(ScanPieces, 1))
\* one text: malformed and foreign input
UploadTotal == Upload(Uploads(TotalPieces, 1))

Spec == Init /\ [][UploadFiles \/ Next]_vars
SpecSplit == Init /\ [][UploadSplit \/ Next]_vars
SpecScan == Init /\ [][UploadScan \/ Next]_vars
\* a run of the script goes on to its end: no step of it waits on anything;
\* nothing makes the user choose files
SpecTotal == Init /\ [][UploadTotal \/ Next]_vars /\ WF_vars(Next)

-----------------------------------------------------------------------------
(* Vocabulary of the properties.  These definitions say what the            *)
(* specification's words mean; none of them is used by an action.           *)

\* the parser is at work on the text of file fi
Parsing == pc \in {"chunk", "scan_i", "scan_j", "scan_k", "emit"}
\* lines, pmid and title are those of chunk ci
InChunk == pc \in {"scan_i", "scan_j", "scan_k", "emit"}
\* parse_medline_text is about to return records
Returning == pc = "chunk" /\ ci >= Len(chunks)

Triple(r) == << r.PMID, r.Author, r.Email >>

IsFAU(l) == StartsWith(l, FAU_TAG)
IsAD(l) == StartsWith(l, AD_TAG)
IsRecordStart(l) == StartsWith(l, PMID_TAG)

\* the text after the separator of a tag line, trimmed
Trimmed(s) ==
    LET keep == { n \in 1..Len(s) :
                    /\ \E m \in 1..n : s[m] \notin Whitespace
                    /\ \E m \in n..Len(s) : s[m] \notin Whitespace }
    IN  [ n \in 1..Cardinality(keep) |->
            s[n + (CHOOSE a \in keep : \A b \in keep : a <= b) - 1] ]
TagValue(l) == Trimmed(SubSeq(l, Len(FAU_TAG) + 1, Len(l)))

Min(S) == CHOOSE a \in S : \A b \in S : a <= b
Max(S) == CHOOSE a \in S : \A b \in S : a >= b

\* 0-based indices of the AD lines of ls that the FAU line at index a can
\* reach: after a, with no FAU line strictly between
Reachable(ls, a) ==
    { b \in (a + 1)..(Len(ls) - 1) :
        /\ IsAD(ls[b + 1])
        /\ \A q \in (a + 1)..(b - 1) : ~IsFAU(ls[q + 1]) }

\* 0-based index one past the lines that continue the AD line at index b, a
\* continuation line being one whose first character is in class C
BlockEnd(ls, b, C) ==
    Min({ q \in (b + 1)..Len(ls) :
            q = Len(ls) \/ ls[q + 1] = << >> \/ ls[q + 1][1] \notin C })

\* the affiliation text of the block of the AD line at index b
BlockText(ls, b, C) ==
    LET e == BlockEnd(ls, b, C)
        part(q) == IF q = b THEN TagValue(ls[q + 1]) ELSE Trimmed(ls[q + 1])
        RECURSIVE Txt(_)
        Txt(q) == IF q >= e THEN << >>
                  ELSE IF q = b THEN part(q) \o Txt(q + 1)
                  ELSE << " " >> \o part(q) \o Txt(q + 1)
    IN  Txt(b)

\* s occurs in t
Occurs(s, t) ==
    \E a \in 0..(Len(t) - Len(s)) : SubSeq(t, a + 1, a + Len(s)) = s

\* s has the shape of an email address
HasAt(s) == \E n \in 1..Len(s) : s[n] = "@"

\* a before b in (file, record, FAU line) order
Before(a, b) ==
    \/ a[1] < b[1]
    \/ a[1] = b[1] /\ a[2] < b[2]
    \/ a[1] = b[1] /\ a[2] = b[2] /\ a[3] < b[3]

\* index in rows of the first row equal to r
FirstPos(rows, r) == Min({ n \in 1..Len(rows) : rows[n] = r })

-----------------------------------------------------------------------------
(* C1 *)

\* C1: the table holds no two rows with the same (identifier, author, email);
\* all_records is the parser outputs concatenated in upload order; the row the
\* table keeps for a triple is the first row of all_records with that triple,
\* and every triple of all_records has its row.
C1_DedupKeepsFirst ==
    (pc = "done" /\ outcome = "table") =>
        /\ \A m, n \in 1..Len(df) :
              m # n => Triple(df[m]) # Triple(df[n])
        /\ Len(all_origin) = Len(all_records)
        /\ \A m, n \in 1..Len(all_origin) :
              m < n => all_origin[m][1] <= all_origin[n][1]
        /\ \A n \in 1..Len(df) :
              \E m \in 1..Len(all_records) :
                 /\ all_records[m] = df[n]
                 /\ \A q \in 1..(m - 1) :
                       Triple(all_records[q]) # Triple(df[n])
        /\ \A m \in 1..Len(all_records) :
              \E n \in 1..Len(df) : Triple(df[n]) = Triple(all_records[m])

\* the same triple came from two sources with two titles, and one row is shown
C1_Witness ==
    /\ pc = "done"
    /\ outcome = "table"
    /\ \E m, n \in 1..Len(all_records) :
          /\ all_origin[m][1] # all_origin[n][1]
          /\ Triple(all_records[m]) = Triple(all_records[n])
          /\ all_records[m].Title # all_records[n].Title
          /\ Cardinality({ q \in 1..Len(df) :
                             Triple(df[q]) = Triple(all_records[m]) }) = 1

-----------------------------------------------------------------------------
(* C2 *)

\* C2: every row the parser holds has a non-empty email, and every row came
\* from an FAU line whose look-ahead finds an AD line: an FAU line with no AD
\* line before the next FAU line or the end of the record has no row.
C2_EmailNonEmpty ==
    /\ \A n \in 1..Len(records) : records[n].Email # << >>
    /\ \A n \in 1..Len(all_records) : all_records[n].Email # << >>
    /\ InChunk =>
          \A n \in 1..Len(rec_origin) :
             rec_origin[n][2] = ci =>
                Reachable(lines, rec_origin[n][3]) # {}

\* an FAU line without a reachable AD line was passed, a row exists, and the
\* record holds an AD line with an email behind a later FAU line
C2_Witness ==
    /\ pc = "scan_i"
    /\ records # << >>
    /\ \E a \in 0..(i - 1) :
          /\ a < Len(lines)
          /\ IsFAU(lines[a + 1])
          /\ Reachable(lines, a) = {}
          /\ \E b \in (a + 1)..(Len(lines) - 1) :
                IsAD(lines[b + 1]) /\ HasAt(lines[b + 1])

-----------------------------------------------------------------------------
(* C3 *)

\* C3: every row of the output has a non-empty author.
C3_AuthorNonEmpty ==
    /\ \A n \in 1..Len(records) : records[n].Author # << >>
    /\ \A n \in 1..Len(df) : df[n].Author # << >>

-----------------------------------------------------------------------------
(* C4 *)

\* C4: the rows of all_records were found in (source, record, FAU line)
\* order, every row of the table is a row of all_records, and of two rows of
\* the table the one listed first was found first.
C4_OrderPreserved ==
    (pc = "done" /\ outcome = "table") =>
        /\ Len(all_origin) = Len(all_records)
        /\ \A m, n \in 1..Len(all_origin) :
              m < n => Before(all_origin[m], all_origin[n])
        /\ \A n \in 1..Len(df) :
              \E m \in 1..Len(all_records) : all_records[m] = df[n]
        /\ \A a, b \in 1..Len(df) :
              a < b => FirstPos(all_records, df[a]) < FirstPos(all_records, df[b])

\* a table of rows from two sources, with a duplicate dropped between them
C4_Witness ==
    /\ pc = "done"
    /\ outcome = "table"
    /\ Len(df) >= 2
    /\ Len(df) < Len(all_records)
    /\ \E a, b \in 1..Len(df) :
          all_origin[FirstPos(all_records, df[a])][1]
             # all_origin[FirstPos(all_records, df[b])][1]

-----------------------------------------------------------------------------
(* C5 *)

\* no line of text t begins with the author tag
NoFauLine(t) ==
    /\ ~IsFAU(t)
    /\ \A p \in 1..Len(t) : t[p] \in LineBreak => ~IsFAU(From(t, p))

\* C5: on every input the script reaches its end, which it does only when no
\* call of the parser raised and its scans over i, j and k all terminated;
\* and at the end no row exists when no text holds an FAU line, the empty
\* text included.
C5_Total ==
    (pc = "start") ~>
        ( /\ pc = "done"
          /\ (\A f \in 1..Len(uploaded_files) :
                 NoFauLine(Trimmed(uploaded_files[f])))
             => all_records = << >> /\ outcome # "table" )

\* the script ended on a text with a tag line that has no value after the
\* separator and an author line whose value is blank
C5_Witness ==
    /\ pc = "done"
    /\ Len(uploaded_files) = 1
    /\ \E n \in 1..Len(lines) : lines[n] \in {PMID_TAG, TI_TAG, AD_TAG}
    /\ \E n \in 1..Len(lines) : IsFAU(lines[n]) /\ TagValue(lines[n]) = << >>

-----------------------------------------------------------------------------
(* C6 *)

\* the value of the first (pick = Min) or last (pick = Max) line of ls that
\* begins with tag, None when no line does
PickedValue(ls, tag, pick(_)) ==
    LET S == { n \in 1..Len(ls) : StartsWith(ls[n], tag) }
    IN  IF S = {} THEN None ELSE TagValue(ls[pick(S)])

\* pmid and title, and the rows of the record, carry the values p and t
HeaderIs(p, t) ==
    InChunk =>
        /\ pmid = p
        /\ title = t
        /\ \A n \in 1..Len(rec_origin) :
              rec_origin[n][2] = ci =>
                 records[n].PMID = p /\ records[n].Title = t

\* C6 as stated: the first identifier line and the first title line win.
C6_FirstWins ==
    HeaderIs(PickedValue(lines, PMID_TAG, Min), PickedValue(lines, TI_TAG, Min))

\* C6 amended: the last identifier line and the last title line of the record
\* win, and every row of the record carries their values.
C6_LastWins ==
    HeaderIs(PickedValue(lines, PMID_TAG, Max), PickedValue(lines, TI_TAG, Max))

\* a record with two identifier lines of different values has a row
C6_Witness ==
    /\ InChunk
    /\ PickedValue(lines, PMID_TAG, Min) # PickedValue(lines, PMID_TAG, Max)
    /\ \E n \in 1..Len(rec_origin) : rec_origin[n][2] = ci

-----------------------------------------------------------------------------
(* C7 *)

\* C7: when the look-ahead of the FAU line at i has ended, j is the smallest
\* index after i of an AD line with no FAU line between, the affiliation text
\* is that of the block starting there and the email is taken from it; when no
\* such AD line exists the email is empty; and every row of the record came
\* from an FAU line with such an AD line.
C7_FirstReachableBlock ==
    /\ pc = "emit" =>
          LET R == Reachable(lines, i)
          IN  IF R = {} THEN email = << >>
              ELSE /\ j = Min(R)
                   /\ aff_lines[1] = TagValue(lines[Min(R) + 1])
                   /\ aff_text = BlockText(lines, Min(R), {" "})
                   /\ email # << >> => Occurs(email, aff_text)
    /\ InChunk =>
          \A n \in 1..Len(rec_origin) :
             rec_origin[n][2] = ci =>
                Reachable(lines, rec_origin[n][3]) # {}

\* the look-ahead skipped a line of another kind and found an email, in a
\* record where an earlier FAU line was abandoned at this one
C7_Witness ==
    /\ pc = "emit"
    /\ email # << >>
    /\ Reachable(lines, i) # {}
    /\ Min(Reachable(lines, i)) > i + 1
    /\ \E a \in 0..(i - 1) : IsFAU(lines[a + 1]) /\ Reachable(lines, a) = {}

-----------------------------------------------------------------------------
(* C8 *)

\* a newline of s at position p is followed by the identifier tag and a
\* whitespace character
AnchoredTagAt(s, p) ==
    /\ s[p] = "\n"
    /\ Len(s) >= p + 6
    /\ SubSeq(s, p + 1, p + 5) = PMID_TAG
    /\ s[p + 6] \in Whitespace

\* the blocks joined by newlines
RECURSIVE JoinNL(_)
JoinNL(cs) ==
    IF cs = << >> THEN << >>
    ELSE IF Len(cs) = 1 THEN cs[1]
    ELSE cs[1] \o << "\n" >> \o JoinNL(Tail(cs))

-----------------------------------------------------------------------------
(* C9 *)

\* the look-ahead of the FAU line at i has ended on the AD line at j
FoundAD == pc = "emit" /\ j < Len(lines) /\ IsAD(lines[j + 1])

\* C9: the affiliation text is the trimmed value of the AD line followed by
\* the trimmed text of the lines after it that begin with whitespace.
C9_WhitespaceContinuation ==
    FoundAD => aff_text = BlockText(lines, j, Whitespace)

\* what the code does: a continuation line is one that begins with a space
C9_SpaceContinuation ==
    FoundAD => aff_text = BlockText(lines, j, {" "})

-----------------------------------------------------------------------------
(* C10 *)

\* C10: no FAU line has two rows; when the first AD block the look-ahead
\* reaches holds no '@' the email is empty, whatever follows that block; and
\* the email of every row of the record is found in that first block.
C10_OnlyFirstBlock ==
    /\ \A m, n \in 1..Len(rec_origin) :
          m # n => rec_origin[m] # rec_origin[n]
    /\ \A m, n \in 1..Len(all_origin) :
          m # n => all_origin[m] # all_origin[n]
    /\ (pc = "emit" /\ Reachable(lines, i) # {}
          /\ ~HasAt(BlockText(lines, Min(Reachable(lines, i)), {" "})))
       => email = << >>
    /\ InChunk =>
          \A n \in 1..Len(rec_origin) :
             rec_origin[n][2] = ci =>
                LET R == Reachable(lines, rec_origin[n][3])
                IN  /\ R # {}
                    /\ Occurs(records[n].Email,
                              BlockText(lines, Min(R), {" "}))

\* the first block held no email, a later AD line before the next FAU line
\* holds one, and the author gets no row
C10_Witness ==
    /\ pc = "emit"
    /\ email = << >>
    /\ Reachable(lines, i) # {}
    /\ \E b \in Reachable(lines, i) :
          b > Min(Reachable(lines, i)) /\ HasAt(lines[b + 1])

====
